---------------------------- MODULE Spec2Model ----------------------------
(***************************************************************************)
(* EclipseLauncher (src/main.py): the MinecraftLauncher object that the    *)
(* web view calls into.  The model covers the configuration store          *)
(* (load_config / save_config / update_* / reset_launcher_data), the       *)
(* bounded launch history (add_launch_history), the progress bridge        *)
(* (set_status / set_progress / set_max) and the launch session            *)
(* (launch / install_and_launch, one background thread per launch).        *)
(***************************************************************************)
EXTENDS Integers, Sequences, FiniteSets, TLC

VARIABLES
    config,            \* self.config: the in-memory configuration dict
    disk,              \* the file launcher_config.json (config_file)
    window,            \* self.window is set (TRUE) or None (FALSE)
    max_value,         \* self.max_value
    current_progress,  \* self.current_progress
    thr,               \* the background threads started by launch()
    ui,                \* per thread: the scripts it passed to window.evaluate_js
    clock,             \* what datetime.now() returns next
    ev,                \* the call or step that produced the current state
    loaded,            \* the documents returned by successive load_config() calls
    appended           \* the entries passed to add_launch_history so far, in order

vars == <<config, disk, window, max_value, current_progress, thr, ui, clock,
          ev, loaded, appended>>

-----------------------------------------------------------------------------
(* Bounds of the model *)

MaxLaunches == 2
MaxCallbacks == 2
MaxAppends == 11
MaxProgress == 50

(* Program constants *)

HistoryCap == 10
DefaultRam == 2

-----------------------------------------------------------------------------
(* Values.  A timestamp (datetime.now().isoformat()) is the clock reading it *)
(* was taken at: the ISO strings of one process order as their instants do. *)

\* Python's None, as returned by dict.get for a missing key.
None == "<None>"

Min(a, b) == IF a < b THEN a ELSE b
Max(a, b) == IF a > b THEN a ELSE b

DefaultKeys ==
    {"last_username", "ram_allocation", "theme", "dark_mode",
     "tutorial_shown", "launch_history"}

\* default_config of load_config
DefaultConfig ==
    [last_username  |-> "",
     ram_allocation |-> DefaultRam,
     theme          |-> "purple",
     dark_mode      |-> TRUE,
     tutorial_shown |-> FALSE,
     launch_history |-> <<>>]

\* minecraft_directory, the value main stores under 'launcher_directory'
MinecraftDirectory == "~/AppData/Local/EclipseLauncher"

\* {**a, **b}: shallow merge, b's values override a's key by key
DictMerge(a, b) ==
    [k \in (DOMAIN a) \cup (DOMAIN b) |-> IF k \in DOMAIN b THEN b[k] ELSE a[k]]

\* d[k] = v on a dict (adds the key when absent)
DictSet(d, k, v) ==
    [j \in (DOMAIN d) \cup {k} |-> IF j = k THEN v ELSE d[j]]

-----------------------------------------------------------------------------
(* The JSON text of the configuration file.  A file is                       *)
(*   [kind |-> "absent"]                      no file                        *)
(*   [kind |-> "garbage", members |-> <<>>]   text json.load rejects         *)
(*   [kind |-> "array",   members |-> <<>>]   JSON, but not an object        *)
(*   [kind |-> "object",  members |-> m]      m: the "key": value members in *)
(*                                            text order, values as tokens   *)

NoFile == [kind |-> "absent", members |-> <<>>]
GarbageFile == [kind |-> "garbage", members |-> <<>>]
ArrayFile == [kind |-> "array", members |-> <<>>]

\* JSON tokens of the Python values the configuration holds
JBool(b) == [t |-> "literal", s |-> IF b THEN "true" ELSE "false"]
JNum(n) == [t |-> "number", n |-> n]
JStr(s) == [t |-> "string", s |-> s]
JEntry(e) ==
    [t |-> "object",
     version |-> JStr(e.version),
     username |-> JStr(e.username),
     timestamp |-> JStr(e.timestamp)]
JArr(seq) == [t |-> "array", items |-> [i \in 1..Len(seq) |-> JEntry(seq[i])]]

\* json.dump of one value under key k
JsonEncode(k, v) ==
    CASE k \in {"dark_mode", "tutorial_shown"} -> JBool(v)
      [] k = "ram_allocation" -> JNum(v)
      [] k = "launch_history" -> JArr(v)
      [] OTHER -> JStr(v)

PyEntry(j) ==
    [version |-> j.version.s, username |-> j.username.s, timestamp |-> j.timestamp.s]

\* json.load of one token
JsonDecode(j) ==
    CASE j.t = "literal" -> (j.s = "true")
      [] j.t = "number" -> j.n
      [] j.t = "string" -> j.s
      [] j.t = "array" -> [i \in 1..Len(j.items) |-> PyEntry(j.items[i])]

\* dict iteration order of the configuration: default_config's keys, then the rest
KeyOrder ==
    <<"last_username", "ram_allocation", "theme", "dark_mode", "tutorial_shown",
      "launch_history", "launcher_directory", "extra">>

RECURSIVE DumpFrom(_, _)
DumpFrom(d, i) ==
    IF i > Len(KeyOrder) THEN <<>>
    ELSE (IF KeyOrder[i] \in DOMAIN d
          THEN <<[key |-> KeyOrder[i], val |-> JsonEncode(KeyOrder[i], d[KeyOrder[i]])]>>
          ELSE <<>>) \o DumpFrom(d, i + 1)

\* JsonDump writing the schema's keys only (unknown keys dropped)
JsonDumpKnownOnly(d) ==
    [kind |-> "object",
     members |-> DumpFrom([k \in (DOMAIN d) \cap DefaultKeys |-> d[k]], 1)]

\* json.dump(self.config, f, indent=2): the file text
JsonDump(d) == [kind |-> "object", members |-> DumpFrom(d, 1)]

\* the last member with key k (json.load keeps the last duplicate)
LastIndexOf(members, k) ==
    CHOOSE i \in 1..Len(members) :
        /\ members[i].key = k
        /\ \A j \in (i + 1)..Len(members) : members[j].key # k

\* json.load(f) of an object file: the dict
JsonLoad(file) ==
    [k \in {file.members[i].key : i \in 1..Len(file.members)} |->
        JsonDecode(file.members[LastIndexOf(file.members, k)].val)]

-----------------------------------------------------------------------------
(* ConfigStore *)

\* LoadConfigOp merging the other way round: {**json.load(f), **default_config}
LoadConfigDefaultsWin(f) ==
    IF f.kind = "object" THEN DictMerge(JsonLoad(f), DefaultConfig) ELSE DefaultConfig

\* load_config: the document it returns for the file f
LoadConfigOp(f) ==
    IF f.kind = "absent" THEN DefaultConfig          \* os.path.exists is False
    ELSE IF f.kind = "object" THEN DictMerge(DefaultConfig, JsonLoad(f))
    ELSE DefaultConfig                                \* bare except

\* save_config: the file after the call.  outcome "ok": written; "open": open()
\* raised, the file is as before; "write": json.dump raised after open(..., 'w')
\* truncated the file.  The exception is printed and swallowed.
SaveConfigOp(cfg, f, outcome) ==
    CASE outcome = "ok" -> JsonDump(cfg)
      [] outcome = "open" -> f
      [] outcome = "write" -> GarbageFile

SaveOutcomes == {"ok", "open", "write"}

-----------------------------------------------------------------------------
(* The record of the call or step that produced the current state:          *)
(* op: its name; ok: it returned and reported success (FALSE when it       *)
(* raised or reported a failure); out: the scripts the calling (UI) thread  *)
(* passed to evaluate_js; saves: the outcome of each                        *)
(* save_config it made, in order; ret: the value it returned to its caller, *)
(* None if it returned none; exc: str(e) of the exception it raised to its  *)
(* caller, None if it returned; calls: the HTTP requests it made.           *)
Ev(op, ok, out, saves) ==
    [op |-> op, ok |-> ok, out |-> out, saves |-> saves, ret |-> None,
     exc |-> None, calls |-> <<>>]

\* the call e returning value
Returning(e, value) == [e EXCEPT !.ret = value]

\* the call e raising an exception with message m to its caller
Raising(e, m) == [e EXCEPT !.ok = FALSE, !.exc = m]

\* the call e returning {"success": success, "message": message}
Returned(e, success, message) ==
    [e EXCEPT !.ret = [success |-> success, message |-> message]]

\* a history entry not yet made
NoEntry == [version |-> None, username |-> None, timestamp |-> 0]

\* A thread of install_and_launch.  pc: where it stands; version, username,
\* ram: its arguments; entry: history_entry; sliced: the value of
\* self.config['launch_history'][:10] before it is stored; cbs: the callbacks
\* the install library has made; jvm: options["jvmArguments"], <<>> until
\* the options are built.  Not program state: maxset (the install library
\* has called callback["setMax"] during this launch), raised (the collaborator
\* that raised, "none" if none), spawned (subprocess.Popen returned), h0 (the
\* history when launch() was called), alone (launch() has not been called
\* again while this thread was running).
IdleThread ==
    [pc |-> "idle", version |-> None, username |-> None, ram |-> 0,
     entry |-> NoEntry, sliced |-> <<>>, cbs |-> 0, jvm |-> <<>>,
     maxset |-> FALSE, raised |-> "none", spawned |-> FALSE, h0 |-> <<>>,
     alone |-> FALSE]

NoThreads == [t \in 1..MaxLaunches |-> IdleThread]
NoScripts == [t \in 1..MaxLaunches |-> <<>>]

-----------------------------------------------------------------------------
(* LoadSpec: load_config and save_config applied to arbitrary files.       *)

\* the values a persisted member may carry, two per key
FileValue(k, n) ==
    CASE k = "last_username" -> IF n = 1 THEN "Notch" ELSE ""
      [] k = "ram_allocation" -> IF n = 1 THEN 4 ELSE 32
      [] k = "theme" -> IF n = 1 THEN "blue" ELSE "purple"
      [] k = "dark_mode" -> (n # 1)
      [] k = "tutorial_shown" -> (n = 1)
      [] k = "launch_history" ->
            IF n = 1
            THEN <<[version |-> "1.20.1", username |-> "Notch", timestamp |-> 0]>>
            ELSE <<>>
      [] OTHER -> IF n = 1 THEN "x" ELSE "y"

RECURSIVE MembersFrom(_, _, _)
MembersFrom(S, n, i) ==
    IF i > Len(KeyOrder) THEN <<>>
    ELSE (IF KeyOrder[i] \in S
          THEN <<[key |-> KeyOrder[i],
                  val |-> JsonEncode(KeyOrder[i], FileValue(KeyOrder[i], n))]>>
          ELSE <<>>) \o MembersFrom(S, n, i + 1)

Reverse(seq) == [i \in 1..Len(seq) |-> seq[Len(seq) + 1 - i]]

\* an object file with the keys S carrying their n-th value; dup: its first
\* member is repeated at the end with the other value; rev: in reverse order
ObjectFile(S, n, dup, rev) ==
    LET m == MembersFrom(S, n, 1)
        d == IF dup /\ m # <<>>
             THEN Append(m, [key |-> m[1].key,
                             val |-> JsonEncode(m[1].key, FileValue(m[1].key, 3 - n))])
             ELSE m
    IN  [kind |-> "object", members |-> IF rev THEN Reverse(d) ELSE d]

FileKeys == DefaultKeys \cup {"extra"}

\* MinecraftLauncher.__init__ on an arbitrary file
LoadInit ==
    /\ \/ disk \in {NoFile, GarbageFile, ArrayFile}
       \/ \E S \in SUBSET FileKeys, n \in 1..2, dup \in BOOLEAN, rev \in BOOLEAN :
             disk = ObjectFile(S, n, dup, rev)
    /\ config = LoadConfigOp(disk)
    /\ loaded = <<[doc |-> config, after |-> "none"]>>
    /\ window = FALSE
    /\ max_value = 0
    /\ current_progress = 0
    /\ thr = NoThreads
    /\ ui = NoScripts
    /\ clock = 1
    /\ ev = Ev("__init__", TRUE, <<>>, <<>>)
    /\ appended = <<>>

\* save_config()
SaveConfig ==
    /\ ev.op = "__init__"
    /\ \E o \in SaveOutcomes :
          /\ disk' = SaveConfigOp(config, disk, o)
          /\ ev' = Ev("save_config", TRUE, <<>>, <<o>>)
    /\ UNCHANGED <<config, window, max_value, current_progress, thr, ui, clock,
                   loaded, appended>>

\* load_config(), called again
LoadConfig ==
    /\ ev.op = "save_config"
    /\ loaded' = Append(loaded, [doc |-> LoadConfigOp(disk), after |-> ev.saves[1]])
    /\ ev' = Ev("load_config", TRUE, <<>>, <<>>)
    /\ UNCHANGED <<config, disk, window, max_value, current_progress, thr, ui,
                   clock, appended>>

LoadNext == SaveConfig \/ LoadConfig

LoadSpec == LoadInit /\ [][LoadNext]_vars

\* the keys of an object file
MemberKeys(f) == {f.members[i].key : i \in 1..Len(f.members)}

\* C7: load_config of a JSON object returns a document that has every default
\* key, in which each persisted member (the last one of a repeated key, known
\* to the schema or not) keeps its persisted value and each default key the
\* file lacks has its default; of an absent or unreadable file, the defaults.
C7_LoadFillsDefaults ==
    ev.op \in {"__init__", "load_config"} =>
        LET r == loaded[Len(loaded)].doc
        IN  /\ DefaultKeys \subseteq DOMAIN r
            /\ disk.kind = "object" =>
                  /\ \A i \in 1..Len(disk.members) :
                        (\A j \in (i + 1)..Len(disk.members) :
                            disk.members[j].key # disk.members[i].key)
                        => /\ disk.members[i].key \in DOMAIN r
                           /\ JsonEncode(disk.members[i].key, r[disk.members[i].key])
                                = disk.members[i].val
                  /\ \A k \in DefaultKeys \ MemberKeys(disk) : r[k] = DefaultConfig[k]
            /\ disk.kind # "object" => r = DefaultConfig

\* C7 witness: a file that supplies 'theme' and an unknown key and lacks
\* 'ram_allocation' has been loaded.
C7_Witness ==
    /\ ev.op = "__init__"
    /\ disk.kind = "object"
    /\ {"theme", "extra"} \subseteq MemberKeys(disk)
    /\ "ram_allocation" \notin MemberKeys(disk)
    /\ loaded[1].doc.theme = "blue"

\* C8: when the save_config between two load_config calls wrote the file, the
\* second load returns the document the first one returned.
C8_RoundTrip ==
    (Len(loaded) = 2 /\ loaded[2].after = "ok") => loaded[2].doc = loaded[1].doc

\* C8 witness: a partial file with an unknown key went through load, save, load.
C8_Witness ==
    /\ Len(loaded) = 2
    /\ loaded[2].after = "ok"
    /\ "extra" \in DOMAIN loaded[1].doc
    /\ loaded[1].doc.theme = "blue"
    /\ loaded[1].doc.last_username = ""

-----------------------------------------------------------------------------
(* The scripts passed to window.evaluate_js *)

\* f'updateStatus("{status}")'; a status is the tuple of its pieces
StatusScript(status) == [fn |-> "updateStatus", args |-> <<status>>]
\* f'updateProgress({percentage}, {self.current_progress}, {self.max_value})'
ProgressScript(p, v, m) == [fn |-> "updateProgress", args |-> <<p, v, m>>]
\* f'loadHistory({json.dumps(self.config["launch_history"])})'
HistoryScript(h) == [fn |-> "loadHistory", args |-> <<JArr(h)>>]

\* set_status: the scripts it issues
SetStatusOut(w, status) == IF w THEN <<StatusScript(status)>> ELSE <<>>

-----------------------------------------------------------------------------
(* HistoryLog *)

\* history_entry of add_launch_history
HistoryEntry(version, username, now) ==
    [version |-> version, username |-> username, timestamp |-> now]

\* list.insert(0, history_entry)
HistInsert(h, e) == <<e>> \o h

\* HistSlice keeping one element too many
HistSliceOffByOne(h) == SubSeq(h, 1, Min(Len(h), HistoryCap + 1))

\* self.config['launch_history'][:10]
HistSlice(h) == SubSeq(h, 1, Min(Len(h), HistoryCap))

\* add_launch_history run without interruption: the configuration after it
AddLaunchHistoryOp(cfg, e) ==
    DictSet(cfg, "launch_history", HistSlice(HistInsert(cfg.launch_history, e)))

\* a history of n entries written by earlier runs, newest first
OldHistory(n) ==
    [i \in 1..n |-> [version |-> "1.19.4", username |-> "Steve", timestamp |-> 0 - i]]

Versions == {"1.20.1"}
Usernames == {"Notch", "Alex"}

-----------------------------------------------------------------------------
(* HistorySpec: add_launch_history called again and again by one thread.   *)

HistoryInit ==
    /\ \E n \in 0..HistoryCap :
          disk = JsonDump(DictSet(DefaultConfig, "launch_history", OldHistory(n)))
    /\ config = LoadConfigOp(disk)
    /\ loaded = <<[doc |-> config, after |-> "none"]>>
    /\ window \in BOOLEAN
    /\ max_value = 0
    /\ current_progress = 0
    /\ thr = NoThreads
    /\ ui = NoScripts
    /\ clock = 1
    /\ ev = Ev("__init__", TRUE, <<>>, <<>>)
    /\ appended = <<>>

\* add_launch_history(version, username)
AddLaunchHistory(version, username) ==
    /\ Len(appended) < MaxAppends
    /\ LET e == HistoryEntry(version, username, clock)
           c == AddLaunchHistoryOp(config, e)
       IN  /\ config' = c
           /\ appended' = Append(appended, e)
           /\ \E o \in SaveOutcomes :
                 /\ disk' = SaveConfigOp(c, disk, o)
                 /\ ev' = Ev("add_launch_history", TRUE,
                             IF window THEN <<HistoryScript(c.launch_history)>> ELSE <<>>,
                             <<o>>)
    /\ clock' = clock + 1
    /\ UNCHANGED <<window, max_value, current_progress, thr, ui, loaded>>

\* the entries differ by their timestamps; one (version, username) is enough
HistoryNext == \E v \in Versions, u \in {"Notch"} : AddLaunchHistory(v, u)

HistorySpec == HistoryInit /\ [][HistoryNext]_vars

\* C3: after k appends to a history h0 of length n <= 10 the history has
\* length min(n + k, 10): the appended entries newest first, then the first
\* entries of h0, as many as fit.
C3_AppendFrontTruncate ==
    LET h0 == loaded[1].doc.launch_history
        k == Len(appended)
        h == config.launch_history
    IN  ev.op \in {"__init__", "add_launch_history"} =>
          /\ Len(h) = Min(Len(h0) + k, 10)
          /\ \A i \in 1..Len(h) :
                h[i] = IF i <= k THEN appended[k + 1 - i] ELSE h0[i - k]

\* C3 witness: 11 appends to an empty history; the first one is gone.
C3_Witness ==
    /\ ev.op = "add_launch_history"
    /\ loaded[1].doc.launch_history = <<>>
    /\ Len(appended) = 11
    /\ Len(config.launch_history) = 10
    /\ config.launch_history[1] = appended[11]
    /\ config.launch_history[10] = appended[2]

-----------------------------------------------------------------------------
(* Python float arithmetic (IEEE 754 binary64, round to nearest, ties to   *)
(* even) on the operands set_progress meets.  A float is its 53-bit         *)
(* significand in three limbs of 18 bits, hi * 2^36 + mid * 2^18 + lo, and  *)
(* the exponent e of its last bit: the value is significand * 2^e.  Zero   *)
(* has all limbs 0.  The limbs keep every product below 2^31.              *)

LimbBits == 18
Limb == 262144       \* 2^18
OperandBits == 13    \* operands of TrueDiv are below 2^13

\* 2^n for n in 0..23
Pow2(n) ==
    <<1, 2, 4, 8, 16, 32, 64, 128, 256, 512, 1024, 2048, 4096, 8192, 16384,
      32768, 65536, 131072, 262144, 524288, 1048576, 2097152, 4194304,
      8388608>>[n + 1]

\* the number of bits of n (0 < n < 2^13)
BitLen(n) == CHOOSE k \in 1..OperandBits : Pow2(k - 1) <= n /\ n < Pow2(k)

\* the float [hi, mid, lo, e], or the next float up when up holds
RoundUp(hi, mid, lo, e, up) ==
    LET lo1 == IF up THEN lo + 1 ELSE lo
        mid1 == mid + lo1 \div Limb
        hi1 == hi + mid1 \div Limb
    IN  IF hi1 >= Pow2(17)       \* the significand reached 2^53
        THEN [hi |-> Pow2(16), mid |-> 0, lo |-> 0, e |-> e + 1]
        ELSE [hi |-> hi1, mid |-> mid1 % Limb, lo |-> lo1 % Limb, e |-> e]

\* the float 1.f1 f2 f3 * 2^ex (f1, f2, f3: 18 fraction bits each): 52
\* fraction bits are kept, the 53rd is the guard, the rest is sticky
DivRound(f1, f2, f3, more, ex) ==
    RoundUp(Pow2(16) + f1 \div 4,
            (f1 % 4) * Pow2(16) + f2 \div 4,
            (f2 % 4) * Pow2(16) + f3 \div 4,
            ex - 52,
            (f3 \div 2) % 2 = 1 /\ (f3 % 2 = 1 \/ more \/ (f3 \div 4) % 2 = 1))

\* long division of r / b (0 <= r < b < 2^13), 18 quotient bits at a time
DivStep3(f1, f2, r, b, ex) ==
    DivRound(f1, f2, (r * Limb) \div b, (r * Limb) % b # 0, ex)

DivStep2(f1, r, b, ex) == DivStep3(f1, (r * Limb) \div b, (r * Limb) % b, b, ex)

DivStep1(r, b, ex) == DivStep2((r * Limb) \div b, (r * Limb) % b, b, ex)

\* a / b for b <= a < 2 * b: the quotient starts 1.
DivNormal(a, b, ex) == DivStep1(a - b, b, ex)

\* a / b for a and b of 13 bits each
DivAligned(a, b, ex) ==
    IF a < b THEN DivNormal(2 * a, b, ex - 1) ELSE DivNormal(a, b, ex)

\* a / b with the bit lengths la, lb of a and b
DivLen(a, la, b, lb) ==
    DivAligned(a * Pow2(OperandBits - la), b * Pow2(OperandBits - lb), la - lb)

\* a / b of two ints (0 <= a < 2^13, 0 < b < 2^13): the correctly rounded
\* quotient
TrueDiv(a, b) ==
    IF a = 0 THEN [hi |-> 0, mid |-> 0, lo |-> 0, e |-> 0]
    ELSE DivLen(a, BitLen(a), b, BitLen(b))

\* the 59 or 60 bit product q2 * 2^36 + q1 * 2^18 + q0, rounded after
\* dropping its last sh bits
MulRound(q2, q1, q0, sh, e) ==
    RoundUp(q2 \div Pow2(sh),
            q1 \div Pow2(sh) + (q2 % Pow2(sh)) * Pow2(LimbBits - sh),
            q0 \div Pow2(sh) + (q1 % Pow2(sh)) * Pow2(LimbBits - sh),
            e + sh,
            /\ (q0 \div Pow2(sh - 1)) % 2 = 1
            /\ \/ q0 % Pow2(sh - 1) # 0
               \/ (q0 \div Pow2(sh)) % 2 = 1)

MulCarry2(p2, q1, q0, e) == MulRound(p2, q1, q0, IF p2 >= Pow2(23) THEN 7 ELSE 6, e)

MulCarry1(h, p1, q0, e) == MulCarry2(h * 100 + p1 \div Limb, p1 % Limb, q0, e)

MulCarry0(h, m, p0, e) == MulCarry1(h, m * 100 + p0 \div Limb, p0 % Limb, e)

\* x * 100 for a float x
Mul100(x) == IF x.hi = 0 THEN x ELSE MulCarry0(x.hi, x.mid, x.lo * 100, x.e)

\* int(x) for a float 0 <= x < 2^17: truncation
FloatToInt(x) ==
    IF x.hi = 0 \/ 0 - x.e >= 53 THEN 0
    ELSE x.hi \div Pow2(0 - x.e - 36)

-----------------------------------------------------------------------------
(* ProgressBridge *)

\* int((self.current_progress / self.max_value) * 100)
PercentageOp(cur, maxv) == FloatToInt(Mul100(TrueDiv(cur, maxv)))

\* ProgressGuard letting every maximum through
ProgressGuardNone(maxv) == TRUE

\* if self.max_value > 0
ProgressGuard(maxv) == maxv > 0

\* set_progress raises: the division is reached with a zero divisor
\* (ZeroDivisionError)
SetProgressRaises(maxv) == ProgressGuard(maxv) /\ maxv = 0

\* set_progress: the scripts it issues once current_progress is stored
SetProgressOut(w, cur, maxv) ==
    IF ProgressGuard(maxv)
    THEN (IF w THEN <<ProgressScript(PercentageOp(cur, maxv), cur, maxv)>> ELSE <<>>)
    ELSE <<>>

-----------------------------------------------------------------------------
(* ProgressSpec: the install library driving set_max and set_progress.     *)

ProgressInit ==
    /\ disk = NoFile
    /\ config = LoadConfigOp(disk)
    /\ loaded = <<[doc |-> config, after |-> "none"]>>
    /\ window = TRUE
    /\ max_value = 0
    /\ current_progress = 0
    /\ thr = NoThreads
    /\ ui = NoScripts
    /\ clock = 1
    /\ ev = Ev("__init__", TRUE, <<>>, <<>>)
    /\ appended = <<>>

\* set_max(new_max)
SetMax(new_max) ==
    /\ max_value' = new_max
    /\ ev' = Ev("set_max", TRUE, <<>>, <<>>)
    /\ UNCHANGED <<config, disk, window, current_progress, thr, ui, clock, loaded,
                   appended>>

\* set_progress(progress)
SetProgress(progress) ==
    /\ current_progress' = progress
    /\ ev' = IF SetProgressRaises(max_value)
             THEN Raising(Ev("set_progress", FALSE, <<>>, <<>>), "division by zero")
             ELSE Ev("set_progress", TRUE,
                     SetProgressOut(window, progress, max_value), <<>>)
    /\ UNCHANGED <<config, disk, window, max_value, thr, ui, clock, loaded, appended>>

ProgressNext ==
    \/ \E m \in 0..MaxProgress : SetMax(m)
    \/ \E v \in 0..MaxProgress : SetProgress(v)

ProgressSpec == ProgressInit /\ [][ProgressNext]_vars

\* C10: with a window and a recorded maximum max > 0, set_progress(v) issues
\* exactly one script, updateProgress(floor(v / max * 100), v, max), and
\* set_max issues none.
C10_PercentageIsFloor ==
    /\ (ev.op = "set_progress" /\ window /\ max_value > 0) =>
          ev.out = <<ProgressScript((100 * current_progress) \div max_value,
                                    current_progress, max_value)>>
    /\ ev.op = "set_max" => ev.out = <<>>

\* C11: set_progress(v) while max_value is 0 (never set, or set to 0) issues
\* no script, raises nothing (the division is not reached) and stores v in
\* current_progress, nothing else.
C11_NoMaximumNoNotification ==
    [][\A v \in 0..MaxProgress :
          (max_value = 0 /\ SetProgress(v)) =>
             /\ ev'.op = "set_progress" /\ ev'.ok /\ ev'.exc = None
             /\ ev'.out = <<>>
             /\ current_progress' = v
             /\ max_value' = 0]_vars

\* C11 witness: a progress value stored while the maximum is 0
C11_Witness ==
    /\ ev.op = "set_progress" /\ ev.ok
    /\ max_value = 0
    /\ current_progress = MaxProgress \div 2
    /\ ev.out = <<>>

-----------------------------------------------------------------------------
(* LaunchSession: launch() on the UI side, install_and_launch on a thread  *)
(* of its own per launch.                                                   *)

Threads == 1..MaxLaunches
Terminal == {"recorded", "failed"}
InFlight(t) == thr[t].pc \notin ({"idle"} \cup Terminal)

\* the status texts, as the pieces they are formatted from
ValidationStatus == <<"Please select a version and enter a username">>
InstallingStatus(v) == <<"Installing Minecraft ", v, "...">>
InstalledStatus(v) == <<"Minecraft ", v, " installed successfully!">>
LaunchingStatus(v) == <<"Launching Minecraft ", v, "...">>
SuccessStatus == <<"Minecraft launched successfully!">>
ErrorStatus(m) == <<"Error: ", m>>

\* str(e) of the exceptions the collaborators raise
ErrorMessages == {"Connection refused"}
\* the texts the install library passes to callback["setStatus"]
LibraryStatuses == {<<"Download Libraries">>}

\* dict.get(key, default)
Get(d, k, default) == IF k \in DOMAIN d THEN d[k] ELSE default

\* Truthy taking the empty string for a value
TruthyNotNone(x) == x # None

\* bool(x) of a str or None
Truthy(x) == x # None /\ x # ""

\* the data objects launch() is called with: complete ones, one without
\* 'ram', and ones whose version or username is missing or empty
Requests ==
    {[version |-> "1.20.1", username |-> "Notch", ram |-> 4],
     [version |-> "1.20.1", username |-> "Alex"],
     [version |-> "", username |-> "Notch", ram |-> 2],
     [version |-> "1.20.1", username |-> "", ram |-> 4],
     [username |-> "Notch", ram |-> 4],
     [version |-> "1.20.1"]}

\* the callbacks the install library has made, over all threads
RECURSIVE CallbacksUpTo(_)
CallbacksUpTo(t) == IF t = 0 THEN 0 ELSE thr[t].cbs + CallbacksUpTo(t - 1)
CallbacksMade == CallbacksUpTo(MaxLaunches)

\* the outcomes of save_config in a launch session: the file is writable
SessionSaveOutcomes == {"ok"}

\* the configuration file an earlier run of the launcher left behind
PreviousConfig ==
    [DefaultConfig EXCEPT !.last_username = "Steve",
                          !.launch_history = OldHistory(HistoryCap - 1)]

\* the state when webview.start runs: __init__, then main's two assignments
Init ==
    /\ disk \in {NoFile, JsonDump(DictSet(PreviousConfig, "launcher_directory",
                                          MinecraftDirectory))}
    /\ config = DictSet(LoadConfigOp(disk), "launcher_directory", MinecraftDirectory)
    /\ loaded = <<[doc |-> LoadConfigOp(disk), after |-> "none"]>>
    /\ window = TRUE
    /\ max_value = 0
    /\ current_progress = 0
    /\ thr = NoThreads
    /\ ui = NoScripts
    /\ clock = 1
    /\ ev = Ev("__init__", TRUE, <<>>, <<>>)
    /\ appended = <<>>

\* a step of thread t: its record becomes r, it issues the scripts out
Step(t, r, out) ==
    /\ thr' = [thr EXCEPT ![t] = r]
    /\ ui' = [ui EXCEPT ![t] = ui[t] \o out]
    /\ ev' = Ev("install_and_launch", TRUE, <<>>, <<>>)

\* Except starting install_and_launch over
ExceptRetry(t, who, m) ==
    Step(t, [thr[t] EXCEPT !.pc = "start", !.raised = who],
         SetStatusOut(window, ErrorStatus(m)))

\* the except clause of install_and_launch: set_status(f"Error: {str(e)}")
Except(t, who, m) ==
    Step(t, [thr[t] EXCEPT !.pc = "failed", !.raised = who],
         SetStatusOut(window, ErrorStatus(m)))

\* launch(data), rejected: version or username is missing or empty
LaunchRejected(data) ==
    /\ ~Truthy(Get(data, "version", None)) \/ ~Truthy(Get(data, "username", None))
    /\ ev' = Ev("launch", FALSE, SetStatusOut(window, ValidationStatus), <<>>)
    /\ UNCHANGED <<config, disk, window, max_value, current_progress, thr, ui,
                   clock, loaded, appended>>

\* LaunchAccepted leaving the file as it was
LaunchAcceptedUnsaved(data) ==
    LET version == Get(data, "version", None)
        username == Get(data, "username", None)
        ram == Get(data, "ram", DefaultRam)
    IN  /\ Truthy(version) /\ Truthy(username)
        /\ \E t \in Threads :
             /\ thr[t].pc = "idle"
             /\ \A s \in 1..(t - 1) : thr[s].pc # "idle"
             /\ thr' = [thr EXCEPT ![t] =
                          [IdleThread EXCEPT
                              !.pc = "start", !.version = version,
                              !.username = username, !.ram = ram,
                              !.h0 = config.launch_history]]
        /\ config' = DictSet(DictSet(config, "last_username", username),
                             "ram_allocation", ram)
        /\ ev' = Ev("launch", TRUE, <<>>, <<>>)
        /\ UNCHANGED <<disk, window, max_value, current_progress, ui, clock,
                       loaded, appended>>

\* launch(data), accepted: update_username, update_ram, thread.start()
LaunchAccepted(data) ==
    LET version == Get(data, "version", None)
        username == Get(data, "username", None)
        ram == Get(data, "ram", DefaultRam)
        c1 == DictSet(config, "last_username", username)
        c2 == DictSet(c1, "ram_allocation", ram)
    IN  /\ Truthy(version) /\ Truthy(username)
        /\ \E t \in Threads :
             /\ thr[t].pc = "idle"
             /\ \A s \in 1..(t - 1) : thr[s].pc # "idle"
             /\ thr' = [s \in Threads |->
                          IF s = t
                          THEN [IdleThread EXCEPT
                                  !.pc = "start", !.version = version,
                                  !.username = username, !.ram = ram,
                                  !.h0 = config.launch_history,
                                  !.alone = \A x \in Threads : ~InFlight(x)]
                          ELSE [thr[s] EXCEPT !.alone = @ /\ ~InFlight(s)]]
        /\ config' = c2
        /\ \E o1 \in SessionSaveOutcomes, o2 \in SessionSaveOutcomes :
             /\ disk' = SaveConfigOp(c2, SaveConfigOp(c1, disk, o1), o2)
             /\ ev' = Ev("launch", TRUE, <<>>, <<o1, o2>>)
        /\ UNCHANGED <<window, max_value, current_progress, ui, clock, loaded,
                       appended>>

Launch(data) == LaunchRejected(data) \/ LaunchAccepted(data)

\* install_and_launch: set_status(f"Installing Minecraft {version}...")
StartInstall(t) ==
    /\ thr[t].pc = "start"
    /\ Step(t, [thr[t] EXCEPT !.pc = "install"],
            SetStatusOut(window, InstallingStatus(thr[t].version)))
    /\ UNCHANGED <<config, disk, window, max_value, current_progress, clock,
                   loaded, appended>>

\* the install library calls callback["setStatus"](text)
CallbackSetStatus(t, text) ==
    /\ thr[t].pc = "install"
    /\ CallbacksMade < MaxCallbacks
    /\ Step(t, [thr[t] EXCEPT !.cbs = @ + 1], SetStatusOut(window, text))
    /\ UNCHANGED <<config, disk, window, max_value, current_progress, clock,
                   loaded, appended>>

\* the install library calls callback["setMax"](new_max)
CallbackSetMax(t, new_max) ==
    /\ thr[t].pc = "install"
    /\ CallbacksMade < MaxCallbacks
    /\ max_value' = new_max
    /\ Step(t, [thr[t] EXCEPT !.cbs = @ + 1, !.maxset = TRUE], <<>>)
    /\ UNCHANGED <<config, disk, window, current_progress, clock, loaded, appended>>

\* CallbackSetProgress still made after install_minecraft_version returned
CallbackSetProgressLate(t, progress) ==
    /\ thr[t].pc \in {"install", "command"}
    /\ CallbacksMade < MaxCallbacks
    /\ current_progress' = progress
    /\ Step(t, [thr[t] EXCEPT !.cbs = @ + 1],
            SetProgressOut(window, progress, max_value))
    /\ UNCHANGED <<config, disk, window, max_value, clock, loaded, appended>>

\* the install library calls callback["setProgress"](progress)
CallbackSetProgress(t, progress) ==
    /\ thr[t].pc = "install"
    /\ CallbacksMade < MaxCallbacks
    /\ current_progress' = progress
    /\ Step(t, [thr[t] EXCEPT !.cbs = @ + 1],
            SetProgressOut(window, progress, max_value))
    /\ UNCHANGED <<config, disk, window, max_value, clock, loaded, appended>>

\* str(n) of an int, as its characters
Digit == <<"0", "1", "2", "3", "4", "5", "6", "7", "8", "9">>
RECURSIVE StrNat(_)
StrNat(n) ==
    IF n < 10 THEN <<Digit[n + 1]>>
    ELSE StrNat(n \div 10) \o <<Digit[(n % 10) + 1]>>
Str(n) == IF n < 0 THEN <<"-">> \o StrNat(-n) ELSE StrNat(n)

\* a // 2 rounded up instead of down
FloorDivUp(a, b) == (a + b - 1) \div b

\* a // b of ints with b > 0: the floor of the quotient
FloorDiv(a, b) == a \div b

\* [f"-Xmx{ram}G", f"-Xms{max(1, ram // 2)}G"]
JvmArguments(ram) ==
    << <<"-Xmx">> \o Str(ram) \o <<"G">>,
       <<"-Xms">> \o Str(Max(1, FloorDiv(ram, 2))) \o <<"G">> >>

\* install_minecraft_version returns: the 'installed' status, the options,
\* the 'Launching' status
InstallReturns(t) ==
    /\ thr[t].pc = "install"
    /\ Step(t, [thr[t] EXCEPT !.pc = "command",
                              !.jvm = JvmArguments(thr[t].ram)],
            SetStatusOut(window, InstalledStatus(thr[t].version))
              \o SetStatusOut(window, LaunchingStatus(thr[t].version)))
    /\ UNCHANGED <<config, disk, window, max_value, current_progress, clock,
                   loaded, appended>>

\* InstallRaises making a history entry all the same
InstallRaisesRecording(t, m) ==
    /\ thr[t].pc = "install"
    /\ Except(t, "install", m)
    /\ config' = AddLaunchHistoryOp(config, HistoryEntry(thr[t].version,
                                                         thr[t].username, clock))
    /\ clock' = clock + 1
    /\ UNCHANGED <<disk, window, max_value, current_progress, loaded, appended>>

\* install_minecraft_version raises
InstallRaises(t, m) ==
    /\ thr[t].pc = "install"
    /\ Except(t, "install", m)
    /\ UNCHANGED <<config, disk, window, max_value, current_progress, clock,
                   loaded, appended>>

\* get_minecraft_command raises
CommandRaises(t, m) ==
    /\ thr[t].pc = "command"
    /\ Except(t, "command", m)
    /\ UNCHANGED <<config, disk, window, max_value, current_progress, clock,
                   loaded, appended>>

\* get_minecraft_command returns and subprocess.Popen raises
SpawnRaises(t, m) ==
    /\ thr[t].pc = "command"
    /\ Except(t, "spawn", m)
    /\ UNCHANGED <<config, disk, window, max_value, current_progress, clock,
                   loaded, appended>>

\* get_minecraft_command and subprocess.Popen return: the success status,
\* then add_launch_history makes history_entry
SpawnReturns(t) ==
    /\ thr[t].pc = "command"
    /\ Step(t, [thr[t] EXCEPT !.pc = "insert", !.spawned = TRUE,
                              !.entry = HistoryEntry(thr[t].version,
                                                     thr[t].username, clock)],
            SetStatusOut(window, SuccessStatus))
    /\ clock' = clock + 1
    /\ UNCHANGED <<config, disk, window, max_value, current_progress, loaded,
                   appended>>

\* self.config['launch_history'].insert(0, history_entry)
InsertEntry(t) ==
    /\ thr[t].pc = "insert"
    /\ config' = DictSet(config, "launch_history",
                         HistInsert(config.launch_history, thr[t].entry))
    /\ Step(t, [thr[t] EXCEPT !.pc = "slice"], <<>>)
    /\ UNCHANGED <<disk, window, max_value, current_progress, clock, loaded,
                   appended>>

\* the right-hand side self.config['launch_history'][:10] is evaluated
SliceHistory(t) ==
    /\ thr[t].pc = "slice"
    /\ Step(t, [thr[t] EXCEPT !.pc = "store",
                              !.sliced = HistSlice(config.launch_history)], <<>>)
    /\ UNCHANGED <<config, disk, window, max_value, current_progress, clock,
                   loaded, appended>>

\* self.config['launch_history'] = <the slice>
StoreHistory(t) ==
    /\ thr[t].pc = "store"
    /\ config' = DictSet(config, "launch_history", thr[t].sliced)
    /\ Step(t, [thr[t] EXCEPT !.pc = "save", !.sliced = <<>>], <<>>)
    /\ UNCHANGED <<disk, window, max_value, current_progress, clock, loaded,
                   appended>>

\* self.save_config() of add_launch_history
SaveHistory(t) ==
    /\ thr[t].pc = "save"
    /\ \E o \in SessionSaveOutcomes : disk' = SaveConfigOp(config, disk, o)
    /\ Step(t, [thr[t] EXCEPT !.pc = "notify"], <<>>)
    /\ UNCHANGED <<config, window, max_value, current_progress, clock, loaded,
                   appended>>

\* evaluate_js(loadHistory(...)) returns; install_and_launch returns
NotifyReturns(t) ==
    /\ thr[t].pc = "notify"
    /\ Step(t, [thr[t] EXCEPT !.pc = "recorded"],
            IF window THEN <<HistoryScript(config.launch_history)>> ELSE <<>>)
    /\ UNCHANGED <<config, disk, window, max_value, current_progress, clock,
                   loaded, appended>>

\* evaluate_js(loadHistory(...)) raises: the except clause of
\* install_and_launch runs after the success status and the save
NotifyRaises(t, m) ==
    /\ thr[t].pc = "notify"
    /\ window
    /\ Except(t, "notify", m)
    /\ UNCHANGED <<config, disk, window, max_value, current_progress, clock,
                   loaded, appended>>

\* the steps of thread t
ThreadStep(t) ==
    \/ StartInstall(t)
    \/ \E text \in LibraryStatuses : CallbackSetStatus(t, text)
    \/ \E m \in {MaxProgress} : CallbackSetMax(t, m)
    \/ \E v \in {MaxProgress \div 2} : CallbackSetProgress(t, v)
    \/ InstallReturns(t)
    \/ \E m \in ErrorMessages : InstallRaises(t, m)
    \/ \E m \in ErrorMessages : CommandRaises(t, m)
    \/ \E m \in ErrorMessages : SpawnRaises(t, m)
    \/ SpawnReturns(t)
    \/ InsertEntry(t)
    \/ SliceHistory(t)
    \/ StoreHistory(t)
    \/ SaveHistory(t)
    \/ NotifyReturns(t)
    \/ \E m \in ErrorMessages : NotifyRaises(t, m)

Next ==
    \/ \E data \in Requests : Launch(data)
    \/ \E t \in Threads : ThreadStep(t)

Spec == Init /\ [][Next]_vars

-----------------------------------------------------------------------------
(* Properties of launch sessions.                                           *)

\* script s is updateStatus(status)
IsStatus(s, status) == s.fn = "updateStatus" /\ s.args = <<status>>

\* the positions of updateStatus(status) among the scripts of thread t
StatusAt(t, status) == {i \in 1..Len(ui[t]) : IsStatus(ui[t][i], status)}

\* the positions of the updateProgress scripts of thread t
ProgressAt(t) == {i \in 1..Len(ui[t]) : ui[t][i].fn = "updateProgress"}

\* data lacks a version or a username, or holds an empty one
Incomplete(data) ==
    \/ "version" \notin DOMAIN data
    \/ "username" \notin DOMAIN data
    \/ data.version = ""
    \/ data.username = ""

\* C2: launch(data) with an empty or missing version or username issues the
\* one validation status and changes nothing else: not the configuration,
\* not the file, no thread is started, no history entry is made.
C2_RejectsIncomplete ==
    [][\A data \in Requests :
          (Incomplete(data) /\ Launch(data)) =>
             /\ ev'.op = "launch" /\ ~ev'.ok
             /\ ev'.out = <<StatusScript(ValidationStatus)>>
             /\ ev'.saves = <<>>
             /\ UNCHANGED <<config, disk, thr, ui, clock, max_value,
                            current_progress>>]_vars

\* C2 witness: a request is rejected after a launch has been recorded; the
\* second thread has not been started.
C2_Witness ==
    /\ ev.op = "launch" /\ ~ev.ok
    /\ ev.out = <<StatusScript(ValidationStatus)>>
    /\ thr[1].pc = "recorded"
    /\ thr[2].pc = "idle"
    /\ config.last_username = thr[1].username

\* C4: at most one install_and_launch thread is running.
C4_OneLaunchInFlight == Cardinality({t \in Threads : InFlight(t)}) <= 1

\* the terminal statuses of a launch
TerminalAt(t) ==
    StatusAt(t, SuccessStatus)
      \cup UNION {StatusAt(t, ErrorStatus(m)) : m \in ErrorMessages}

\* C5: the scripts of one launch, in the order they were issued: the
\* 'Installing' status is the first, every updateProgress comes before the
\* 'Launching' status, and the 'Launching' status comes before the terminal
\* status, which the launch has issued when it is recorded or failed.
C5_OrderWithinLaunch ==
    \A t \in Threads :
       LET v == thr[t].version IN
       /\ thr[t].pc \notin {"idle", "start"} =>
             /\ Len(ui[t]) >= 1
             /\ StatusAt(t, InstallingStatus(v)) = {1}
       /\ \A i \in ProgressAt(t), j \in StatusAt(t, LaunchingStatus(v)) : i < j
       /\ \A j \in StatusAt(t, LaunchingStatus(v)), k \in TerminalAt(t) : j < k
       /\ Cardinality(StatusAt(t, LaunchingStatus(v))) <= 1
       /\ thr[t].pc \in Terminal => TerminalAt(t) # {}
       /\ (thr[t].pc \notin Terminal /\ ~thr[t].spawned) => TerminalAt(t) = {}

\* C5 witness: a recorded launch that issued updateProgress, 'Launching' and
\* the success status.
C5_Witness ==
    \E t \in Threads :
       /\ thr[t].pc = "recorded"
       /\ ProgressAt(t) # {}
       /\ StatusAt(t, LaunchingStatus(thr[t].version)) # {}
       /\ StatusAt(t, SuccessStatus) # {}

\* the entries of the history made in this session
SessionEntries == {i \in 1..Len(config.launch_history) :
                      config.launch_history[i].timestamp >= 1}

\* a thread in which a collaborator raised
FailedLaunch(t) ==
    /\ thr[t].pc = "failed"
    /\ thr[t].raised \in {"install", "command", "spawn"}
    /\ Len(ui[t]) >= 1
    /\ \E m \in ErrorMessages : IsStatus(ui[t][Len(ui[t])], ErrorStatus(m))
    /\ thr[t].entry = NoEntry
    /\ ~thr[t].spawned
    /\ StatusAt(t, SuccessStatus) = {}
    /\ \A i \in 1..Len(ui[t]) : ui[t][i].fn # "loadHistory"
    /\ thr[t].raised = "install" =>
          StatusAt(t, LaunchingStatus(thr[t].version)) = {}

\* C6: when install_minecraft_version, get_minecraft_command or Popen raises
\* with message m, the launch is failed at once: its last script is the
\* status 'Error: ' m, it makes no history entry, no later stage runs (after
\* an install error no 'Launching' status, and no process is spawned), and
\* a failed launch stays failed: it issues nothing more and is not retried.
C6_ErrorFailsLaunch ==
    /\ [](\A t \in Threads :
            thr[t].raised \in {"install", "command", "spawn"} => FailedLaunch(t))
    /\ [](Cardinality(SessionEntries)
            <= Cardinality({t \in Threads : thr[t].spawned}))
    /\ [][\A t \in Threads :
            /\ thr[t].pc = "failed" =>
                  thr'[t].pc = "failed" /\ ui'[t] = ui[t]
            /\ (thr[t].pc # "failed" /\ thr'[t].pc = "failed") =>
                  config' = config /\ disk' = disk]_vars

\* C6 witness: install raised in one launch, Popen in another
C6_Witness ==
    /\ thr[1].pc = "failed" /\ thr[1].raised = "install"
    /\ thr[2].pc = "failed" /\ thr[2].raised = "spawn"
    /\ IsStatus(ui[1][Len(ui[1])], ErrorStatus("Connection refused"))
    /\ StatusAt(2, LaunchingStatus(thr[2].version)) # {}
    /\ config.launch_history = thr[1].h0

\* C1: when a launch of version v for username u with ram r is recorded
\* (install, command construction and spawn all returned), last_username is
\* u, ram_allocation is r, the history is the one launch() found with the
\* one new entry for (v, u) in front, cut to ten, and the last status of the
\* launch is the success status.
C1_SuccessRecordsRequest ==
    [][\A t \in Threads :
          (thr[t].pc # "recorded" /\ thr'[t].pc = "recorded") =>
             /\ config'.last_username = thr'[t].username
             /\ config'.ram_allocation = thr'[t].ram
             /\ thr'[t].entry.version = thr'[t].version
             /\ thr'[t].entry.username = thr'[t].username
             /\ config'.launch_history
                  = HistSlice(HistInsert(thr'[t].h0, thr'[t].entry))
             /\ StatusAt(t, SuccessStatus)' # {}
             /\ \A i \in 1..Len(ui'[t]) :
                   ui'[t][i].fn = "updateStatus" =>
                      i <= CHOOSE k \in StatusAt(t, SuccessStatus)' : TRUE]_vars

\* C1 for a launch during which launch() is not called again
C1_SuccessRecordsRequestAlone ==
    [][\A t \in Threads :
          (thr[t].pc # "recorded" /\ thr'[t].pc = "recorded" /\ thr'[t].alone) =>
             /\ config'.last_username = thr'[t].username
             /\ config'.ram_allocation = thr'[t].ram
             /\ thr'[t].entry.version = thr'[t].version
             /\ thr'[t].entry.username = thr'[t].username
             /\ config'.launch_history
                  = HistSlice(HistInsert(thr'[t].h0, thr'[t].entry))
             /\ StatusAt(t, SuccessStatus)' # {}
             /\ \A i \in 1..Len(ui'[t]) :
                   ui'[t][i].fn = "updateStatus" =>
                      i <= CHOOSE k \in StatusAt(t, SuccessStatus)' : TRUE]_vars

\* the launch of thread t passed validation, installed and spawned
Spawned(t) ==
    /\ thr[t].spawned
    /\ Truthy(thr[t].version) /\ Truthy(thr[t].username)
    /\ StatusAt(t, InstalledStatus(thr[t].version)) # {}
    /\ thr[t].raised \in {"none", "notify"}

\* C12: every history entry made in the session is the entry of one launch
\* that passed validation, installed and spawned its process, no two
\* entries are the same, a launch in which install, command construction or
\* spawn raised has made none, and an entry that stays in the history keeps
\* its version, username and timestamp.
C12_EntriesFromSpawnedLaunches ==
    /\ [](\A i \in SessionEntries :
            \E t \in Threads : Spawned(t) /\ thr[t].entry = config.launch_history[i])
    /\ [](\A i, j \in 1..Len(config.launch_history) :
            config.launch_history[i] = config.launch_history[j] => i = j)
    /\ [](\A t \in Threads :
            ~thr[t].spawned =>
               /\ thr[t].entry = NoEntry
               /\ \A i \in SessionEntries :
                     \E s \in Threads \ {t} : thr[s].entry = config.launch_history[i])
    /\ [][\A i \in 1..Len(config.launch_history) :
            \A j \in 1..Len(config.launch_history') :
               config.launch_history[i].timestamp = config.launch_history'[j].timestamp
                  => config.launch_history[i] = config.launch_history'[j]]_vars

\* C12 witness: one launch recorded and one failed at spawn: one new entry
C12_Witness ==
    /\ thr[1].pc = "recorded"
    /\ thr[2].pc = "failed" /\ thr[2].raised = "spawn"
    /\ Cardinality(SessionEntries) = 1
    /\ config.launch_history[1] = thr[1].entry

\* the configuration a load of the file would give
Persisted == LoadConfigOp(disk)

NewestFirst(h) == \A i \in 1..(Len(h) - 1) : h[i].timestamp >= h[i + 1].timestamp

\* h has at most ten entries, newest first
WellFormedHistory(h) == Len(h) <= HistoryCap /\ NewestFirst(h)

\* C15: in every state, with launches interleaving, launch_history has at
\* most 10 entries ordered newest first, in memory and in the file.
C15_HistoryWellFormed ==
    /\ WellFormedHistory(config.launch_history)
    /\ WellFormedHistory(Persisted.launch_history)

\* a file with eleven entries has been written
C15_FileOverCap == Len(Persisted.launch_history) > HistoryCap

\* the history in the file is not newest first
C15_FileOutOfOrder == ~NewestFirst(Persisted.launch_history)

\* the entry of launch t is in the history h
EntryIn(t, h) == \E i \in 1..Len(h) : h[i] = thr[t].entry

\* C18: in every reachable state in which the success status of a launch
\* has been delivered to the UI, the history entry of that launch is in
\* launch_history and in the persisted document.
C18_RecordedBeforeSuccess ==
    \A t \in Threads :
       StatusAt(t, SuccessStatus) # {} =>
          /\ EntryIn(t, config.launch_history)
          /\ EntryIn(t, Persisted.launch_history)

\* the success status of launch 1 is out and add_launch_history has not
\* yet inserted its entry
C18_SuccessBeforeInsert ==
    /\ thr[1].pc = "insert"
    /\ ui[1][Len(ui[1])] = [fn |-> "updateStatus", args |-> <<SuccessStatus>>]
    /\ ~EntryIn(1, config.launch_history)
    /\ ~EntryIn(1, Persisted.launch_history)
    /\ thr[2].pc = "idle"

\* the 'Error: ...' statuses among the scripts of launch t
ErrorAt(t) == UNION {StatusAt(t, ErrorStatus(m)) : m \in ErrorMessages}

\* C20: a launch delivers at most one terminal status: never both the
\* success status and an 'Error: ...' status, and neither of them twice,
\* also when recording the entry or notifying the UI of the history fails.
C20_OneTerminalStatus ==
    \A t \in Threads :
       Cardinality(StatusAt(t, SuccessStatus) \cup ErrorAt(t)) <= 1

\* launch 1 delivered the success status, its entry was saved, loadHistory
\* raised, and the 'Error: ...' status followed
C20_ErrorAfterSuccess ==
    /\ thr[1].pc = "failed" /\ thr[1].raised = "notify"
    /\ StatusAt(1, SuccessStatus) = {Len(ui[1]) - 1}
    /\ ErrorAt(1) = {Len(ui[1])}
    /\ EntryIn(1, Persisted.launch_history)
    /\ thr[2].pc = "idle"

\* every launch of the session spawned its process and its thread has
\* finished, and the history launch() first found was empty
AllSpawnedAndFinished ==
    /\ \A t \in Threads : thr[t].pc \in Terminal /\ thr[t].spawned
    /\ thr[1].h0 = <<>>

\* C21: when the launches of the session, overlapping or not, have all
\* spawned their process and finished, starting from an empty history,
\* launch_history holds exactly one entry per launch and nothing else.
C21_NoEntryLost ==
    AllSpawnedAndFinished =>
       /\ Len(config.launch_history) = MaxLaunches
       /\ \A t \in Threads : EntryIn(t, config.launch_history)

\* both launches were recorded and the history, in memory and in the file,
\* holds the entry of launch 1 alone
C21_EntryLost ==
    /\ AllSpawnedAndFinished
    /\ thr[1].pc = "recorded" /\ thr[2].pc = "recorded"
    /\ config.launch_history = <<thr[1].entry>>
    /\ Persisted.launch_history = <<thr[1].entry>>
    /\ thr[2].entry # thr[1].entry

\* C22: a launch whose install has made no setMax callback has forwarded
\* no percentage: updateProgress is issued for a launch only after a setMax
\* of that same launch, whatever maximum an earlier launch recorded.
C22_ProgressScopedToLaunch ==
    \A t \in Threads : ~thr[t].maxset => ProgressAt(t) = {}

\* launch 1 recorded the maximum and finished; launch 2, started afterwards,
\* received setProgress before any setMax of its own and forwarded a
\* percentage computed with the maximum of launch 1
C22_MaximumCarriedOver ==
    /\ thr[1].pc = "recorded" /\ thr[1].maxset /\ thr[1].alone
    /\ thr[2].pc = "install" /\ ~thr[2].maxset /\ thr[2].alone
    /\ max_value = MaxProgress
    /\ ui[2][Len(ui[2])]
         = ProgressScript(PercentageOp(MaxProgress \div 2, MaxProgress),
                          MaxProgress \div 2, MaxProgress)

\* with one launch in the process, no percentage before its setMax
C22_FirstLaunchScoped ==
    (thr[2].pc = "idle" /\ ~thr[1].maxset) => ProgressAt(1) = {}

-----------------------------------------------------------------------------
(* StoreSpec: the configuration store called from the settings page: the   *)
(* update_* setters, mark_tutorial_complete, add_launch_history and         *)
(* reset_launcher_data, one call at a time.                                 *)

MaxStoreAppends == 2

\* the values the settings page passes
RamValues == {4}
Themes == {"blue"}

\* str(e) of the exception os.remove raises
RemoveErrors == {"Permission denied"}
ResetMessage == <<"Launcher data reset successfully!">>

\* Update reporting a save it has not made
UpdateUnsaved(op, key, value) ==
    /\ config' = DictSet(config, key, value)
    /\ disk' = disk
    /\ ev' = Ev(op, TRUE, <<>>, <<"ok">>)
    /\ UNCHANGED <<window, max_value, current_progress, thr, ui, clock, loaded,
                   appended>>

\* self.config[key] = value; self.save_config()
Update(op, key, value) ==
    /\ config' = DictSet(config, key, value)
    /\ \E o \in SaveOutcomes :
          /\ disk' = SaveConfigOp(config', disk, o)
          /\ ev' = Ev(op, TRUE, <<>>, <<o>>)
    /\ UNCHANGED <<window, max_value, current_progress, thr, ui, clock, loaded,
                   appended>>

UpdateUsername(username) == Update("update_username", "last_username", username)
UpdateRam(ram) == Update("update_ram", "ram_allocation", ram)
UpdateTheme(theme) == Update("update_theme", "theme", theme)
UpdateDarkMode(dark_mode) == Update("update_dark_mode", "dark_mode", dark_mode)
MarkTutorialComplete == Update("mark_tutorial_complete", "tutorial_shown", TRUE)

\* reset_launcher_data reloading the configuration without removing the file
ResetLauncherDataKeepingFile(m) ==
    /\ disk' = disk
    /\ config' = LoadConfigOp(disk')
    /\ ev' = Returned(Ev("reset_launcher_data", TRUE, <<>>, <<>>), TRUE, ResetMessage)
    /\ UNCHANGED <<window, max_value, current_progress, thr, ui, clock, loaded,
                   appended>>

\* reset_launcher_data(); m: os.remove raises with message m, None: it returns
ResetLauncherData(m) ==
    /\ m # None => disk # NoFile
    /\ IF m = None
       THEN /\ disk' = NoFile
            /\ config' = LoadConfigOp(disk')
            /\ ev' = Returned(Ev("reset_launcher_data", TRUE, <<>>, <<>>),
                              TRUE, ResetMessage)
       ELSE /\ UNCHANGED <<disk, config>>
            /\ ev' = Returned(Ev("reset_launcher_data", FALSE, <<>>, <<>>),
                              FALSE, ErrorStatus(m))
    /\ UNCHANGED <<window, max_value, current_progress, thr, ui, clock, loaded,
                   appended>>

StoreNext ==
    \/ \E u \in {"Notch"} : UpdateUsername(u)
    \/ \E r \in RamValues : UpdateRam(r)
    \/ \E th \in Themes : UpdateTheme(th)
    \/ \E b \in {FALSE} : UpdateDarkMode(b)
    \/ MarkTutorialComplete
    \/ /\ Len(appended) < MaxStoreAppends
       /\ \E v \in Versions : AddLaunchHistory(v, "Notch")
    \/ \E m \in RemoveErrors \cup {None} : ResetLauncherData(m)

StoreSpec == Init /\ [][StoreNext]_vars

\* C9: whatever was set or appended before, a reset_launcher_data() that
\* returns success leaves the configuration equal to the defaults (an empty
\* launch_history, no other key) and no configuration file; when the file
\* cannot be removed it returns {success: False, message: 'Error: ...'}.
C9_ResetRestoresDefaults ==
    ev.op = "reset_launcher_data" =>
       /\ ev.ret.success = ev.ok
       /\ ev.ok =>
             /\ config = DefaultConfig
             /\ DOMAIN config = DefaultKeys
             /\ config.launch_history = <<>>
             /\ disk = NoFile
             /\ ev.ret.message = ResetMessage
       /\ ~ev.ok =>
             /\ \E m \in RemoveErrors : ev.ret.message = ErrorStatus(m)
             /\ disk # NoFile

\* C9 witness: a successful reset after two history appends
C9_Witness ==
    /\ ev.op = "reset_launcher_data" /\ ev.ok
    /\ Len(appended) = 2
    /\ config = DefaultConfig
    /\ disk = NoFile

\* C9 witness of the failure: the reset is refused, the settings are kept
C9_FailureWitness ==
    /\ ev.op = "reset_launcher_data" /\ ~ev.ok
    /\ config.theme = "blue"
    /\ Len(config.launch_history) >= 1

\* the setters and the key each one assigns
UpdateKey ==
    [update_username |-> "last_username", update_ram |-> "ram_allocation",
     update_theme |-> "theme", update_dark_mode |-> "dark_mode",
     mark_tutorial_complete |-> "tutorial_shown"]

\* C14: a setter assigns its one key and leaves every other key of the
\* configuration as it was; it returns normally whatever save_config met;
\* and when the write succeeded the file holds exactly the configuration.
C14_UpdateOneFieldAndPersist ==
    /\ [](ev.op \in DOMAIN UpdateKey =>
            /\ ev.ok /\ ev.ret = None /\ ev.out = <<>>
            /\ Len(ev.saves) = 1
            /\ ev.saves = <<"ok">> => JsonLoad(disk) = config)
    /\ [][ev'.op \in DOMAIN UpdateKey =>
            /\ DOMAIN config' = DOMAIN config \cup {UpdateKey[ev'.op]}
            /\ \A k \in DOMAIN config \ {UpdateKey[ev'.op]} : config'[k] = config[k]
            /\ ev'.saves # <<"ok">> => disk' \in {disk, GarbageFile}]_vars
    /\ [][/\ \A u \in {"Notch"} : UpdateUsername(u) => config'.last_username = u
          /\ \A r \in RamValues : UpdateRam(r) => config'.ram_allocation = r
          /\ \A th \in Themes : UpdateTheme(th) => config'.theme = th
          /\ \A b \in {FALSE} : UpdateDarkMode(b) => config'.dark_mode = b
          /\ MarkTutorialComplete => config'.tutorial_shown = TRUE]_vars

\* C14 witness: update_theme after update_username, both written
C14_Witness ==
    /\ ev.op = "update_theme" /\ ev.saves = <<"ok">>
    /\ config.theme = "blue"
    /\ config.last_username = "Notch"
    /\ JsonLoad(disk) = config

\* C14 witness of a failed write: the setter returned, the file is not the
\* configuration
C14_FailureWitness ==
    /\ ev.op = "update_ram" /\ ev.saves = <<"write">> /\ ev.ok
    /\ config.ram_allocation = 4
    /\ disk = GarbageFile

-----------------------------------------------------------------------------
(* ApiSpec: the calls the page makes besides launch(): get_config,          *)
(* get_versions, get_uuid, delete_minecraft_instances, the setters and       *)
(* reset_launcher_data, one call at a time.                                  *)

\* what get_available_versions returns: dicts with 'id' and 'type'
AvailableVersionLists ==
    {<<>>,
     <<[id |-> "1.20.1", type |-> "release"],
       [id |-> "23w13a", type |-> "snapshot"],
       [id |-> "1.19.4", type |-> "release"],
       [id |-> "b1.7.3", type |-> "old_beta"],
       [id |-> "a1.2.6", type |-> "old_alpha"]>>}

\* str(e) of the exceptions get_available_versions and shutil.rmtree raise
ListErrors == {"Connection refused"}
DeleteErrors == {"Access is denied"}
DeleteMessage == <<"All Minecraft instances deleted successfully!">>

\* [v['id'] for v in av_versions if v['type'] == type]
IdsOfType(av, type) ==
    LET sel == SelectSeq(av, LAMBDA v : v.type = type)
    IN  [i \in 1..Len(sel) |-> sel[i].id]

\* the dict get_versions builds
VersionsByType(av) ==
    [release |-> IdsOfType(av, "release"), snapshot |-> IdsOfType(av, "snapshot"),
     old_beta |-> IdsOfType(av, "old_beta"), old_alpha |-> IdsOfType(av, "old_alpha")]

\* get_config()
GetConfig ==
    /\ ev' = Returning(Ev("get_config", TRUE, <<>>, <<>>), config)
    /\ UNCHANGED <<config, disk, window, max_value, current_progress, thr, ui,
                   clock, loaded, appended>>

\* get_versions(); av: what get_available_versions returns, m: the message
\* of the exception it raises instead, None if it returns.  There is no try
\* block around the call.
GetVersions(av, m) ==
    /\ ev' = IF m = None
             THEN Returning(Ev("get_versions", TRUE, <<>>, <<>>), VersionsByType(av))
             ELSE Raising(Ev("get_versions", FALSE, <<>>, <<>>), m)
    /\ UNCHANGED <<config, disk, window, max_value, current_progress, thr, ui,
                   clock, loaded, appended>>

\* delete_minecraft_instances(); m: the message of the exception one of the
\* shutil.rmtree calls raises, None if all return
DeleteMinecraftInstances(m) ==
    /\ ev' = IF m = None
             THEN Returned(Ev("delete_minecraft_instances", TRUE, <<>>, <<>>),
                           TRUE, DeleteMessage)
             ELSE Returned(Ev("delete_minecraft_instances", FALSE, <<>>, <<>>),
                           FALSE, ErrorStatus(m))
    /\ UNCHANGED <<config, disk, window, max_value, current_progress, thr, ui,
                   clock, loaded, appended>>

\* the answers of api.mojang.com to GET /users/profiles/minecraft/{username}:
\* requests.get raises, or a response with a status and a body that is a
\* JSON object with "id", one without, or not JSON
Statuses == {200, 204, 404, 500}
Bodies == {"id", "no id", "not json"}
LookupResponses ==
    {[kind |-> "raise", status |-> 0, body |-> "not json"]}
      \cup {[kind |-> "response", status |-> st, body |-> b] :
               st \in Statuses, b \in Bodies}

\* the "id" the service holds for a username
UuidOf ==
    [Notch |-> "069a79f444e94726a5befca90e38aaf5",
     Alex |-> "ec561538f3fd461daff5086b22154bce"]

\* the one requests.get a lookup makes
LookupCall(username, resp) ==
    <<[fn |-> "requests.get", username |-> username, response |-> resp]>>

\* MinecraftLauncher.get_uuid: what it returns; the bare except turns
\* every exception (requests.get, r.json(), ["id"]) into None
GetUuidOp(username, resp) ==
    IF resp.kind = "raise" THEN None
    ELSE IF resp.status = 200
         THEN (IF resp.body = "id" THEN UuidOf[username] ELSE None)
         ELSE None

\* MinecraftLauncher.get_uuid(username)
GetUuid(username, resp) ==
    /\ ev' = [Returning(Ev("get_uuid", TRUE, <<>>, <<>>), GetUuidOp(username, resp))
                EXCEPT !.calls = LookupCall(username, resp)]
    /\ UNCHANGED <<config, disk, window, max_value, current_progress, thr, ui,
                   clock, loaded, appended>>

\* get_uuid of tests.py raises: no try block; requests.get raises, or the
\* status is 200 and r.json()["id"] raises
TestsGetUuidRaises(resp) ==
    \/ resp.kind = "raise"
    \/ resp.status = 200 /\ resp.body # "id"

\* get_uuid(username) of tests.py
TestsGetUuid(username, resp) ==
    /\ ev' = [(IF TestsGetUuidRaises(resp)
               THEN Raising(Ev("tests.get_uuid", FALSE, <<>>, <<>>),
                            IF resp.kind = "raise" THEN "ConnectionError"
                            ELSE IF resp.body = "no id" THEN "KeyError"
                            ELSE "JSONDecodeError")
               ELSE Returning(Ev("tests.get_uuid", TRUE, <<>>, <<>>),
                              IF resp.status = 200 THEN UuidOf[username] ELSE None))
                EXCEPT !.calls = LookupCall(username, resp)]
    /\ UNCHANGED <<config, disk, window, max_value, current_progress, thr, ui,
                   clock, loaded, appended>>

ApiNext ==
    \/ GetConfig
    \/ \E av \in AvailableVersionLists, m \in ListErrors \cup {None} : GetVersions(av, m)
    \/ \E m \in DeleteErrors \cup {None} : DeleteMinecraftInstances(m)
    \/ \E resp \in LookupResponses : GetUuid("Notch", resp)
    \/ \E u \in {"Notch"} : UpdateUsername(u)
    \/ \E r \in RamValues : UpdateRam(r)
    \/ \E th \in Themes : UpdateTheme(th)
    \/ \E b \in {FALSE} : UpdateDarkMode(b)
    \/ MarkTutorialComplete
    \/ \E m \in RemoveErrors \cup {None} : ResetLauncherData(m)

ApiSpec == Init /\ [][ApiNext]_vars

\* the methods of MinecraftLauncher the page calls
ApiOps ==
    {"get_config", "update_username", "update_ram", "update_theme",
     "update_dark_mode", "mark_tutorial_complete", "reset_launcher_data",
     "delete_minecraft_instances", "get_versions", "launch", "get_uuid"}

\* C16: no call of the API raises to the page: whatever a collaborator
\* does, the call returns.
C16_ApiNeverRaises == ev.op \in ApiOps => ev.exc = None

\* C16 for the calls other than get_versions
C16_OthersNeverRaise == ev.op \in ApiOps \ {"get_versions"} => ev.exc = None

\* get_versions has raised to the page
C16_VersionsRaised == ev.op = "get_versions" /\ ev.exc = "Connection refused"

-----------------------------------------------------------------------------
(* LookupSpec: the two username lookups of the repository, the method of   *)
(* MinecraftLauncher and the function of tests.py, against every answer of  *)
(* the service.                                                              *)

LookupNext ==
    \/ \E u \in Usernames, resp \in LookupResponses : GetUuid(u, resp)
    \/ \E u \in Usernames, resp \in LookupResponses : TestsGetUuid(u, resp)

LookupSpec == Init /\ [][LookupNext]_vars

\* the lookup e made one request, raised nothing, returned the "id" of a
\* 200 response and None for any other status or a failed request
LookupConforms(e) ==
    /\ Len(e.calls) = 1
    /\ e.exc = None
    /\ (/\ e.calls[1].response.kind = "response"
        /\ e.calls[1].response.status = 200
        /\ e.calls[1].response.body = "id") => e.ret = UuidOf[e.calls[1].username]
    /\ (\/ e.calls[1].response.kind = "raise"
        \/ e.calls[1].response.status # 200) => e.ret = None

\* C17: a lookup makes a single request, returns the "id" of the body when
\* the status is 200, returns None for any other status or a network
\* failure, and never raises.
C17_LookupReturnsIdOrNone ==
    ev.op \in {"get_uuid", "tests.get_uuid"} => LookupConforms(ev)

\* C17 for MinecraftLauncher.get_uuid alone
C17_LauncherLookup == ev.op = "get_uuid" => LookupConforms(ev)

\* get_uuid of tests.py has raised on a failed request
C17_TestsLookupRaised ==
    /\ ev.op = "tests.get_uuid"
    /\ ev.calls[1].response.kind = "raise"
    /\ ev.exc = "ConnectionError"

-----------------------------------------------------------------------------
(* ArgsSpec: one launch() with any RAM value, then its thread.             *)

MaxRam == 32
LaunchRams == (-MaxRam)..MaxRam

\* a complete request with RAM value r
RamRequest(r) == [version |-> "1.20.1", username |-> "Notch", ram |-> r]

ArgsNext ==
    \/ \E r \in LaunchRams : thr[1].pc = "idle" /\ LaunchAccepted(RamRequest(r))
    \/ ThreadStep(1)

ArgsSpec == Init /\ [][ArgsNext]_vars

\* thread t has built its options
OptionsBuilt(t) ==
    thr[t].pc \notin {"idle", "start", "install"} /\ thr[t].raised # "install"

\* max(1, floor(r/2)): m is 1 or more, and it is the q with 2q <= r < 2q + 2
\* when that q is 1 or more
IsHalfAtLeastOne(m, r) ==
    \E q \in (-(MaxRam + 1))..(MaxRam + 1) :
       /\ 2 * q <= r /\ r < 2 * q + 2
       /\ m = (IF q >= 1 THEN q ELSE 1)

C19_AboveRangeWitness ==
    /\ thr[1].pc = "recorded" /\ thr[1].ram = 25
    /\ thr[1].jvm = << <<"-Xmx", "2", "5", "G">>, <<"-Xms", "1", "2", "G">> >>

\* the int a string of decimal digits with an optional sign stands for
RECURSIVE ParseNat(_)
ParseNat(cs) ==
    IF cs = <<>> THEN 0
    ELSE 10 * ParseNat(SubSeq(cs, 1, Len(cs) - 1))
           + (CHOOSE d \in 0..9 : Digit[d + 1] = cs[Len(cs)])
ParseInt(cs) == IF cs[1] = "-" THEN -ParseNat(Tail(cs)) ELSE ParseNat(cs)

\* the gigabytes of a '-Xmx{n}G' or '-Xms{n}G' argument
HeapOf(arg) == ParseInt(SubSeq(arg, 2, Len(arg) - 1))

\* C23: for every RAM value launch() accepts and hands to the thread, the
\* initial heap size of the options is at most the maximum heap size:
\* the n of -Xms{n}G is at most the n of -Xmx{n}G.
C23_InitialHeapWithinMaximum ==
    \A t \in Threads :
       OptionsBuilt(t) => HeapOf(thr[t].jvm[2]) <= HeapOf(thr[t].jvm[1])

\* a launch with ram 0 was accepted and built -Xmx0G with -Xms1G
C23_InitialHeapAboveMaximum ==
    /\ thr[1].pc = "command" /\ thr[1].ram = 0
    /\ config.ram_allocation = 0
    /\ thr[1].jvm = << <<"-Xmx", "0", "G">>, <<"-Xms", "1", "G">> >>
    /\ HeapOf(thr[1].jvm[1]) = 0 /\ HeapOf(thr[1].jvm[2]) = 1

\* C23 for the RAM values of 1 and more
C23_PositiveRam ==
    \A t \in Threads :
       (OptionsBuilt(t) /\ thr[t].ram >= 1) =>
          HeapOf(thr[t].jvm[2]) <= HeapOf(thr[t].jvm[1])

\* the arguments read back give the RAM value and its half
C23_ArgumentsReadBack ==
    \A t \in Threads :
       OptionsBuilt(t) =>
          /\ HeapOf(thr[t].jvm[1]) = thr[t].ram
          /\ IsHalfAtLeastOne(HeapOf(thr[t].jvm[2]), thr[t].ram)

=============================================================================
